---------------------------- MODULE Spec2Model ----------------------------
(***************************************************************************)
(* A model of the GitHub MCP server of src/server.ts: the tool catalog     *)
(* returned for list-tools requests, the call-tool dispatcher with its six *)
(* forwarding methods, the conversion of failures to protocol errors, and  *)
(* the start-up sequence of the process.                                   *)
(*                                                                         *)
(* Texts (error messages, serialized JSON) are sequences of tokens,         *)
(* so that containment and the layout of the text can be examined.         *)
(***************************************************************************)
EXTENDS Integers, Sequences, FiniteSets, TLC

VARIABLES
    proc,           \* position of the process: starting, running, serving, ...
    exitCode,       \* exit status once the process has terminated, else -1
    stderr,         \* what the process has written with console.error
    octokit,        \* the GitHub client handle held by the server object
    phase,          \* per request slot: free, received, awaiting, done
    request,        \* per slot: the params of the call-tool request
    handler,        \* per slot: the method the switch dispatched to
    calls,          \* per slot: the GitHub calls issued while handling it
    settled,        \* per slot: how the slot's own GitHub call ended
    response,       \* per slot: the responses produced for the request
    toolsResponse   \* the result of the latest list-tools request

vars == <<proc, exitCode, stderr, octokit, phase, request, handler, calls,
          settled, response, toolsResponse>>

(***************************************************************************)
(* Bounds of the model.                                                    *)
(***************************************************************************)
\* number of call-tool requests that can be in flight at once
MaxInFlight == 2

Slots == 1..MaxInFlight

(***************************************************************************)
(* JavaScript / JSON values.                                               *)
(***************************************************************************)
Undefined == [t |-> "undefined"]
JNull == [t |-> "null"]
JStr(s) == [t |-> "string", s |-> s]
JNum(n) == [t |-> "number", n |-> n]
JArr(es) == [t |-> "array", es |-> es]
\* an object is the sequence of its <<key, value>> members, in property order
JObj(ps) == [t |-> "object", ps |-> ps]

Range(s) == {s[i] : i \in DOMAIN s}

(***************************************************************************)
(* The tool catalog: the literal returned by the list-tools handler.       *)
(***************************************************************************)
OwnerProp == [type |-> "string", description |-> "Repository owner"]
RepoProp == [type |-> "string", description |-> "Repository name"]

ListRepositoriesTool ==
    [name |-> "list_repositories",
     description |-> "List repositories for the authenticated user",
     inputSchema |->
       [type |-> "object",
        properties |->
          [type |-> [type |-> "string",
                     enum |-> <<"all", "owner", "member">>,
                     default |-> JStr("owner"),
                     description |-> "Type of repositories to list"],
           sort |-> [type |-> "string",
                     enum |-> <<"created", "updated", "pushed", "full_name">>,
                     default |-> JStr("updated"),
                     description |-> "Sort repositories by"],
           per_page |-> [type |-> "number",
                         default |-> JNum(30),
                         maximum |-> 100,
                         description |-> "Number of repositories to return"]]]]

GetRepositoryTool ==
    [name |-> "get_repository",
     description |-> "Get details about a specific repository",
     inputSchema |->
       [type |-> "object",
        properties |-> [owner |-> OwnerProp, repo |-> RepoProp],
        required |-> <<"owner", "repo">>]]

ListIssuesTool ==
    [name |-> "list_issues",
     description |-> "List issues for a repository",
     inputSchema |->
       [type |-> "object",
        properties |->
          [owner |-> OwnerProp,
           repo |-> RepoProp,
           state |-> [type |-> "string",
                      enum |-> <<"open", "closed", "all">>,
                      default |-> JStr("open"),
                      description |-> "Issue state"],
           labels |-> [type |-> "string",
                       description |-> "Comma-separated list of labels"],
           per_page |-> [type |-> "number",
                         default |-> JNum(30),
                         maximum |-> 100,
                         description |-> "Number of issues to return"]],
        required |-> <<"owner", "repo">>]]

CreateIssueTool ==
    [name |-> "create_issue",
     description |-> "Create a new issue in a repository",
     inputSchema |->
       [type |-> "object",
        properties |->
          [owner |-> OwnerProp,
           repo |-> RepoProp,
           title |-> [type |-> "string", description |-> "Issue title"],
           body |-> [type |-> "string", description |-> "Issue body"],
           labels |-> [type |-> "array",
                       items |-> [type |-> "string"],
                       description |-> "Issue labels"],
           assignees |-> [type |-> "array",
                          items |-> [type |-> "string"],
                          description |-> "Issue assignees"]],
        required |-> <<"owner", "repo", "title">>]]

ListPullRequestsTool ==
    [name |-> "list_pull_requests",
     description |-> "List pull requests for a repository",
     inputSchema |->
       [type |-> "object",
        properties |->
          [owner |-> OwnerProp,
           repo |-> RepoProp,
           state |-> [type |-> "string",
                      enum |-> <<"open", "closed", "all">>,
                      default |-> JStr("open"),
                      description |-> "Pull request state"],
           per_page |-> [type |-> "number",
                         default |-> JNum(30),
                         maximum |-> 100,
                         description |-> "Number of pull requests to return"]],
        required |-> <<"owner", "repo">>]]

GetFileContentTool ==
    [name |-> "get_file_content",
     description |-> "Get content of a file from a repository",
     inputSchema |->
       [type |-> "object",
        properties |->
          [owner |-> OwnerProp,
           repo |-> RepoProp,
           path |-> [type |-> "string", description |-> "File path"],
           ref |-> [type |-> "string",
                    description |-> "Git reference (branch, tag, commit SHA)",
                    default |-> JStr("main")]],
        required |-> <<"owner", "repo", "path">>]]

\* ListToolsResult with one descriptor pasted over its neighbour
ListToolsResultPasted ==
    [tools |-> <<ListRepositoriesTool, GetRepositoryTool, GetRepositoryTool,
                 CreateIssueTool, ListPullRequestsTool, GetFileContentTool>>]

\* the result of the list-tools handler
ListToolsResult ==
    [tools |-> <<ListRepositoriesTool, GetRepositoryTool, ListIssuesTool,
                 CreateIssueTool, ListPullRequestsTool, GetFileContentTool>>]


(***************************************************************************)
(* Errors.  An error value has the class it was constructed from, its name *)
(* and message properties, and (for McpError) the protocol error code.     *)
(***************************************************************************)
JsError(class, name, message) ==
    [class |-> class, name |-> name, code |-> "none", message |-> message]

McpError(code, message) ==
    [class |-> "McpError", name |-> "McpError", code |-> code,
     message |-> message]

\* `${error}` in the template literal: Error.prototype.toString
ErrorToString(error) ==
    IF error.message = <<>> THEN <<error.name>>
    ELSE IF error.name = "" THEN error.message
    ELSE <<error.name, ": ">> \o error.message

(***************************************************************************)
(* Completions of a method's synchronous part: it throws, or it reaches    *)
(* the await of one GitHub call.                                           *)
(***************************************************************************)
Throw(error) == [k |-> "throw", error |-> error]
Await(op, params) == [k |-> "await", op |-> op, params |-> params]
Bound(v) == [k |-> "bound", v |-> v]

\* one property of a destructuring pattern, `key` or `key = default`
Prop(key) == [key |-> key, default |-> Undefined]
PropDefault(key, default) == [key |-> key, default |-> default]

\* args[key] of an arguments object
GetProperty(args, key) ==
    IF key \in DOMAIN args.m THEN args.m[key] ELSE Undefined

\* the value a pattern property binds: the default replaces undefined only
BindProperty(args, p) ==
    LET v == GetProperty(args, p.key)
    IN IF v = Undefined THEN p.default ELSE v

\* const { ... } = args
Destructure(pattern, args) ==
    IF args.t = "undefined"
    THEN Throw(JsError("TypeError", "TypeError",
                 <<"Cannot destructure property '", pattern[1].key,
                   "' of 'args' as it is undefined.">>))
    ELSE Bound([key \in {pattern[i].key : i \in DOMAIN pattern} |->
                  BindProperty(args,
                     CHOOSE p \in Range(pattern) : p.key = key)])

\* a method body: destructure, then await one call with the bound names
Forward(pattern, op, args) ==
    LET d == Destructure(pattern, args)
    IN IF d.k = "throw" THEN d ELSE Await(op, d.v)

listRepositories(args) ==
    Forward(<<PropDefault("type", JStr("owner")),
              PropDefault("sort", JStr("updated")),
              PropDefault("per_page", JNum(30))>>,
            "repos.listForAuthenticatedUser", args)

getRepository(args) ==
    Forward(<<Prop("owner"), Prop("repo")>>, "repos.get", args)

listIssues(args) ==
    Forward(<<Prop("owner"), Prop("repo"),
              PropDefault("state", JStr("open")), Prop("labels"),
              PropDefault("per_page", JNum(30))>>,
            "issues.listForRepo", args)

\* createIssue defaulting the omitted lists to empty lists
createIssueEmptyLists(args) ==
    Forward(<<Prop("owner"), Prop("repo"), Prop("title"), Prop("body"),
              PropDefault("labels", JArr(<<>>)),
              PropDefault("assignees", JArr(<<>>))>>,
            "issues.create", args)

createIssue(args) ==
    Forward(<<Prop("owner"), Prop("repo"), Prop("title"), Prop("body"),
              Prop("labels"), Prop("assignees")>>,
            "issues.create", args)

listPullRequests(args) ==
    Forward(<<Prop("owner"), Prop("repo"),
              PropDefault("state", JStr("open")),
              PropDefault("per_page", JNum(30))>>,
            "pulls.list", args)

getFileContent(args) ==
    Forward(<<Prop("owner"), Prop("repo"), Prop("path"),
              PropDefault("ref", JStr("main"))>>,
            "repos.getContent", args)

(***************************************************************************)
(* The call-tool handler: the switch and the catch clause.                 *)
(***************************************************************************)
\* SwitchCase comparing the names without regard to letter case
SwitchCaseIgnoringCase(name) ==
    CASE name \in {"list_repositories", "List_Repositories"} -> "listRepositories"
      [] name \in {"get_repository", "Get_Repository"} -> "getRepository"
      [] name \in {"list_issues", "List_Issues"} -> "listIssues"
      [] name \in {"create_issue", "Create_Issue"} -> "createIssue"
      [] name \in {"list_pull_requests", "List_Pull_Requests"} -> "listPullRequests"
      [] name \in {"get_file_content", "Get_File_Content"} -> "getFileContent"
      [] OTHER -> "default"

\* the method the switch selects for a tool name, "default" for no case
SwitchCase(name) ==
    CASE name = "list_repositories" -> "listRepositories"
      [] name = "get_repository" -> "getRepository"
      [] name = "list_issues" -> "listIssues"
      [] name = "create_issue" -> "createIssue"
      [] name = "list_pull_requests" -> "listPullRequests"
      [] name = "get_file_content" -> "getFileContent"
      [] OTHER -> "default"

\* the try block up to its first suspension
Invoke(name, args) ==
    LET method == SwitchCase(name)
    IN CASE method = "listRepositories" -> listRepositories(args)
         [] method = "getRepository" -> getRepository(args)
         [] method = "listIssues" -> listIssues(args)
         [] method = "createIssue" -> createIssue(args)
         [] method = "listPullRequests" -> listPullRequests(args)
         [] method = "getFileContent" -> getFileContent(args)
         [] OTHER -> Throw(McpError("MethodNotFound",
                                    <<"Unknown tool: ", name>>))

\* Catch leaving the caught error out of the message it builds
CatchDroppingCause(name, error) ==
    IF error.class = "McpError"
    THEN error
    ELSE McpError("InternalError", <<"Error executing tool ", name>>)

\* the catch clause: what the handler finally throws for a caught error
Catch(name, error) ==
    IF error.class = "McpError"
    THEN error
    ELSE McpError("InternalError",
                  <<"Error executing tool ", name, ": ">>
                     \o ErrorToString(error))

(***************************************************************************)
(* JSON.stringify(value, null, 2).  The text is a sequence of tokens: a    *)
(* punctuation mark, a line break, a run of n spaces, a quoted string, a   *)
(* number or the literal null.                                             *)
(***************************************************************************)
Punct(c) == [k |-> "punct", c |-> c]
LineBreak == [k |-> "newline"]
Spaces(n) == [k |-> "space", n |-> n]
Quote(s) == [k |-> "string", s |-> s]
NumberText(n) == [k |-> "number", n |-> n]
NullText == [k |-> "null"]

\* the gap of a numeric space argument of 2
Gap == <<Spaces(2)>>

\* the indentation at a nesting depth: the gap, once per level
RECURSIVE Indent(_)
Indent(depth) == IF depth = 0 THEN <<>> ELSE Indent(depth - 1) \o Gap

RECURSIVE SerializeJSONProperty(_, _)
RECURSIVE SerializeMembers(_, _, _)
RECURSIVE SerializeElements(_, _, _)

\* the members of an object from the i-th on, separated by ",\n" + indent
SerializeMembers(ps, i, depth) ==
    IF i > Len(ps) THEN <<>>
    ELSE (IF i = 1 THEN <<>> ELSE <<Punct(","), LineBreak>> \o Indent(depth))
         \o <<Quote(ps[i][1]), Punct(":"), Spaces(1)>>
         \o SerializeJSONProperty(ps[i][2], depth)
         \o SerializeMembers(ps, i + 1, depth)

\* the elements of an array from the i-th on, separated by ",\n" + indent
SerializeElements(es, i, depth) ==
    IF i > Len(es) THEN <<>>
    ELSE (IF i = 1 THEN <<>> ELSE <<Punct(","), LineBreak>> \o Indent(depth))
         \o SerializeJSONProperty(es[i], depth)
         \o SerializeElements(es, i + 1, depth)

SerializeJSONProperty(value, depth) ==
    CASE value.t = "null" -> <<NullText>>
      [] value.t = "string" -> <<Quote(value.s)>>
      [] value.t = "number" -> <<NumberText(value.n)>>
      [] value.t = "object" ->
           IF value.ps = <<>> THEN <<Punct("{"), Punct("}")>>
           ELSE <<Punct("{"), LineBreak>> \o Indent(depth + 1)
                \o SerializeMembers(value.ps, 1, depth + 1)
                \o <<LineBreak>> \o Indent(depth) \o <<Punct("}")>>
      [] value.t = "array" ->
           IF value.es = <<>> THEN <<Punct("["), Punct("]")>>
           ELSE <<Punct("["), LineBreak>> \o Indent(depth + 1)
                \o SerializeElements(value.es, 1, depth + 1)
                \o <<LineBreak>> \o Indent(depth) \o <<Punct("]")>>

JSONStringify(value) == SerializeJSONProperty(value, 0)

\* ToolResult serializing the whole response instead of its data
ToolResultOfResponse(data) ==
    [content |-> <<[type |-> "text",
                    text |-> JSONStringify(JObj(<< <<"status", JNum(200)>>,
                                                   <<"data", data>> >>))]>>]

\* the value a method returns once its GitHub call has resolved
ToolResult(data) ==
    [content |-> <<[type |-> "text", text |-> JSONStringify(data)]>>]

(***************************************************************************)
(* Responses and outcomes.                                                 *)
(***************************************************************************)
None == [k |-> "none"]
Resolved(data) == [k |-> "resolved", data |-> data]
Rejected(error) == [k |-> "rejected", error |-> error]

ResultResponse(result) == [kind |-> "result", result |-> result]
ErrorResponse(error) == [kind |-> "error", error |-> error]

\* what the handler answers once its awaited GitHub call has settled
Settle(name, outcome) ==
    IF outcome.k = "resolved"
    THEN ResultResponse(ToolResult(outcome.data))
    ELSE ErrorResponse(Catch(name, outcome.error))

(***************************************************************************)
(* The inputs the environment can supply.                                  *)
(***************************************************************************)
NoArguments == Undefined
Arguments(m) == [t |-> "object", m |-> m]
Params(name, arguments) == [name |-> name, arguments |-> arguments]

CatalogNames == {ListToolsResult.tools[i].name : i \in DOMAIN ListToolsResult.tools}
Descriptor(name) ==
    CHOOSE d \in Range(ListToolsResult.tools) : d.name = name

\* names no case of the switch carries
UnknownNames == {"delete_repository", "List_Issues"}

\* a field the schemas do not declare
UndeclaredField == "page"

\* the values a caller supplies for a field
FieldSamples(field) ==
    CASE field = "owner" -> {JStr("octocat")}
      [] field = "repo" -> {JStr("Hello-World")}
      [] field = "title" -> {JStr("Bug")}
      [] field = "body" -> {JStr("It fails")}
      [] field = "labels" -> {JStr("bug,ui"), JArr(<<JStr("bug")>>)}
      [] field = "assignees" -> {JArr(<<JStr("octocat")>>)}
      [] field = "state" -> {JStr("closed"), JNull}
      [] field = "per_page" -> {JNum(500)}
      [] field = "type" -> {JStr("all")}
      [] field = "sort" -> {JStr("created")}
      [] field = "path" -> {JStr("README.md")}
      [] field = "ref" -> {JStr("develop")}
      [] OTHER -> {JNum(2)}

\* every object that supplies some of the fields, each with a sample value
RECURSIVE ObjectsOver(_)
ObjectsOver(fields) ==
    IF fields = {} THEN {<<>>}
    ELSE LET f == CHOOSE x \in fields : TRUE
             rest == ObjectsOver(fields \ {f})
         IN rest \cup {(f :> v) @@ m : v \in FieldSamples(f), m \in rest}

DeclaredFields(name) == DOMAIN Descriptor(name).inputSchema.properties

\* all requests of the single-call specification
WideRequests ==
    UNION {{Params(name, NoArguments)}
             \cup {Params(name, Arguments(m)) :
                     m \in ObjectsOver(DeclaredFields(name)
                                          \cup {UndeclaredField})} :
           name \in CatalogNames}
    \cup {Params(name, a) :
            name \in UnknownNames,
            a \in {NoArguments, Arguments(<<>>),
                   Arguments([owner |-> JStr("octocat"),
                              repo |-> JStr("Hello-World")])}}

OwnerRepo == [owner |-> JStr("octocat"), repo |-> JStr("Hello-World")]

\* the requests of the server specification
FewRequests ==
    {Params("list_repositories", NoArguments),
     Params("list_repositories", Arguments(<<>>)),
     Params("get_repository", Arguments(OwnerRepo)),
     Params("list_issues", Arguments(("per_page" :> JNum(500)) @@ OwnerRepo)),
     Params("create_issue", Arguments(("title" :> JStr("Bug")) @@ OwnerRepo)),
     Params("list_pull_requests", Arguments(OwnerRepo)),
     Params("get_file_content", Arguments(<<>>)),
     Params("delete_repository", Arguments(OwnerRepo))}

HelloWorld == JObj(<< <<"id", JNum(1)>>, <<"name", JStr("Hello-World")>> >>)
SpoonKnife ==
    JObj(<< <<"id", JNum(2)>>,
            <<"name", JStr("Spoon-Knife")>>,
            <<"owner", JObj(<< <<"login", JStr("octocat")>> >>)>>,
            <<"license", JNull>>,
            <<"topics", JArr(<<JStr("git"), JStr("demo")>>)>> >>)

\* response bodies of the GitHub API
DataSamples ==
    {HelloWorld, JArr(<<HelloWorld, SpoonKnife>>), JArr(<<>>), JObj(<<>>),
     JObj(<< <<"content", JStr("aGk=")>>, <<"empty", JArr(<<>>)>> >>)}

\* failures of a GitHub call
ErrorSamples ==
    {JsError("RequestError", "HttpError", <<"Not Found">>),
     JsError("RequestError", "HttpError", <<"Bad credentials">>),
     JsError("TypeError", "TypeError", <<"fetch failed">>),
     JsError("Error", "Error", <<>>)}

WideOutcomes ==
    {Resolved(d) : d \in DataSamples} \cup {Rejected(e) : e \in ErrorSamples}

FewOutcomes ==
    {Resolved(HelloWorld),
     Rejected(JsError("RequestError", "HttpError", <<"Not Found">>))}

\* the values of process.env.GITHUB_TOKEN
Tokens == {JStr("ghp_token"), Undefined}

RunningLine == <<"GitHub MCP server running on stdio">>

ConnectErrors == {JsError("Error", "Error", <<"transport already started">>)}

(***************************************************************************)
(* The state machine.                                                      *)
(***************************************************************************)
NoParams == Params("", NoArguments)
EmptySlots(v) == [r \in Slots |-> v]

NoRequests ==
    /\ phase = EmptySlots("free")
    /\ request = EmptySlots(NoParams)
    /\ handler = EmptySlots("none")
    /\ calls = EmptySlots(<<>>)
    /\ settled = EmptySlots(None)
    /\ response = EmptySlots(<<>>)
    /\ toolsResponse = None

\* the process before the module's top-level statements have run
Init ==
    /\ proc = "start"
    /\ exitCode = -1
    /\ stderr = <<>>
    /\ octokit = None
    /\ NoRequests

\* the process once run() has connected the transport
InitServing ==
    /\ proc = "serving"
    /\ exitCode = -1
    /\ stderr = <<RunningLine>>
    /\ octokit \in {[auth |-> token] : token \in Tokens}
    /\ NoRequests

slotVars == <<phase, request, handler, calls, settled, response>>

\* new GitHubMCPServer() returns
Construct ==
    /\ proc = "start"
    /\ \E token \in Tokens : octokit' = [auth |-> token]
    /\ proc' = "constructed"
    /\ UNCHANGED <<exitCode, stderr, slotVars, toolsResponse>>

\* new GitHubMCPServer() throws: an uncaught exception ends the process
ConstructThrows ==
    /\ proc = "start"
    /\ proc' = "exited"
    /\ exitCode' = 1
    /\ UNCHANGED <<stderr, octokit, slotVars, toolsResponse>>

\* run(): the transport connects
RunConnected ==
    /\ proc = "constructed"
    /\ proc' = "serving"
    /\ stderr' = Append(stderr, RunningLine)
    /\ UNCHANGED <<exitCode, octokit, slotVars, toolsResponse>>

\* run() rejects: .catch(console.error) logs the error and handles it
RunRejected ==
    /\ proc = "constructed"
    /\ \E error \in ConnectErrors :
          stderr' = Append(stderr, ErrorToString(error))
    /\ proc' = "failed"
    /\ UNCHANGED <<exitCode, octokit, slotVars, toolsResponse>>

\* nothing keeps the event loop alive after the handled rejection
ExitAfterRejection ==
    /\ proc = "failed"
    /\ proc' = "exited"
    /\ exitCode' = 0
    /\ UNCHANGED <<stderr, octokit, slotVars, toolsResponse>>

\* the host closes the transport stream
TransportClose ==
    /\ proc = "serving"
    /\ proc' = "closed"
    /\ UNCHANGED <<exitCode, stderr, octokit, slotVars, toolsResponse>>

\* the event loop drains once the stream is closed and no handler is pending
ExitAfterClose ==
    /\ proc = "closed"
    /\ \A r \in Slots : phase[r] \in {"free", "done"}
    /\ proc' = "exited"
    /\ exitCode' = 0
    /\ UNCHANGED <<stderr, octokit, slotVars, toolsResponse>>

\* a list-tools request is answered
ListTools ==
    /\ proc = "serving"
    /\ toolsResponse' = ListToolsResult
    /\ UNCHANGED <<proc, exitCode, stderr, octokit, slotVars>>

\* a call-tool request arrives
Receive(r, params) ==
    /\ proc = "serving"
    /\ phase[r] = "free"
    /\ phase' = [phase EXCEPT ![r] = "received"]
    /\ request' = [request EXCEPT ![r] = params]
    /\ UNCHANGED <<proc, exitCode, stderr, octokit, handler, calls, settled,
                   response, toolsResponse>>

\* RequestArguments reading the arguments of the oldest slot in use
RequestArgumentsShared(r) ==
    request[CHOOSE s \in Slots :
              /\ phase[s] # "free"
              /\ \A t \in Slots : phase[t] # "free" => s <= t].arguments

\* const { name, arguments: args } = request.params
RequestName(r) == request[r].name
RequestArguments(r) == request[r].arguments

\* the handler runs up to the await of its GitHub call, or throws before it
CallTool(r) ==
    /\ proc \in {"serving", "closed"}
    /\ phase[r] = "received"
    /\ LET c == Invoke(RequestName(r), RequestArguments(r))
       IN /\ handler' = [handler EXCEPT ![r] = SwitchCase(RequestName(r))]
          /\ IF c.k = "await"
             THEN /\ calls' = [calls EXCEPT ![r] =
                       Append(@, [op |-> c.op, params |-> c.params,
                                  auth |-> octokit.auth])]
                  /\ phase' = [phase EXCEPT ![r] = "awaiting"]
                  /\ UNCHANGED response
             ELSE /\ response' = [response EXCEPT ![r] =
                       Append(@, ErrorResponse(Catch(RequestName(r), c.error)))]
                  /\ phase' = [phase EXCEPT ![r] = "done"]
                  /\ UNCHANGED calls
    /\ UNCHANGED <<proc, exitCode, stderr, octokit, request, settled,
                   toolsResponse>>

\* OctokitSettle ending the process when the GitHub call has failed
OctokitSettleExiting(r, outcome) ==
    /\ proc \in {"serving", "closed"}
    /\ phase[r] = "awaiting"
    /\ settled' = [settled EXCEPT ![r] = outcome]
    /\ response' = [response EXCEPT ![r] =
                      Append(@, Settle(RequestName(r), outcome))]
    /\ phase' = [phase EXCEPT ![r] = "done"]
    /\ proc' = IF outcome.k = "rejected" THEN "exited" ELSE proc
    /\ exitCode' = IF outcome.k = "rejected" THEN 1 ELSE exitCode
    /\ UNCHANGED <<stderr, octokit, request, handler, calls, toolsResponse>>

\* the awaited GitHub call settles and the handler returns or throws
OctokitSettle(r, outcome) ==
    /\ proc \in {"serving", "closed"}
    /\ phase[r] = "awaiting"
    /\ settled' = [settled EXCEPT ![r] = outcome]
    /\ response' = [response EXCEPT ![r] =
                      Append(@, Settle(RequestName(r), outcome))]
    /\ phase' = [phase EXCEPT ![r] = "done"]
    /\ UNCHANGED <<proc, exitCode, stderr, octokit, request, handler, calls,
                   toolsResponse>>

\* the response has been written and the request is discarded
Release(r) ==
    /\ phase[r] = "done"
    /\ proc \in {"serving", "closed"}
    /\ phase' = [phase EXCEPT ![r] = "free"]
    /\ request' = [request EXCEPT ![r] = NoParams]
    /\ handler' = [handler EXCEPT ![r] = "none"]
    /\ calls' = [calls EXCEPT ![r] = <<>>]
    /\ settled' = [settled EXCEPT ![r] = None]
    /\ response' = [response EXCEPT ![r] = <<>>]
    /\ UNCHANGED <<proc, exitCode, stderr, octokit, toolsResponse>>

Next ==
    \/ Construct
    \/ ConstructThrows
    \/ RunConnected
    \/ RunRejected
    \/ ExitAfterRejection
    \/ TransportClose
    \/ ExitAfterClose
    \/ ListTools
    \/ \E r \in Slots : \E params \in FewRequests : Receive(r, params)
    \/ \E r \in Slots : CallTool(r)
    \/ \E r \in Slots : \E outcome \in FewOutcomes : OctokitSettle(r, outcome)
    \/ \E r \in Slots : Release(r)

\* the server from process start, with requests in flight concurrently
Spec == Init /\ [][Next]_vars

\* the requests of the specification with fairness
LiveRequests ==
    {Params("get_repository", Arguments(OwnerRepo)),
     Params("list_repositories", NoArguments),
     Params("delete_repository", Arguments(OwnerRepo))}

NextLive ==
    \/ Construct
    \/ ConstructThrows
    \/ RunConnected
    \/ RunRejected
    \/ ExitAfterRejection
    \/ TransportClose
    \/ ExitAfterClose
    \/ ListTools
    \/ \E r \in Slots : \E params \in LiveRequests : Receive(r, params)
    \/ \E r \in Slots : CallTool(r)
    \/ \E r \in Slots : \E outcome \in FewOutcomes : OctokitSettle(r, outcome)
    \/ \E r \in Slots : Release(r)

\* the server where the event loop runs every handler that is ready to run
\* and every GitHub call that was issued settles
FairSpec ==
    /\ Init
    /\ [][NextLive]_vars
    /\ \A r \in Slots : WF_vars(CallTool(r))
    /\ \A r \in Slots :
          WF_vars(\E outcome \in FewOutcomes : OctokitSettle(r, outcome))

NextCall ==
    \/ ListTools
    \/ \E params \in WideRequests : Receive(1, params)
    \/ CallTool(1)
    \/ \E outcome \in WideOutcomes : OctokitSettle(1, outcome)
    \/ Release(1)

\* one request at a time, over every combination of supplied fields
CallSpec == InitServing /\ [][NextCall]_vars

(***************************************************************************)
(* Notions the properties are stated with.                                 *)
(***************************************************************************)
Handled(r) == phase[r] \in {"awaiting", "done"}
Known(r) == request[r].name \in CatalogNames

\* sub occurs in text as a run of consecutive tokens
Contains(text, sub) ==
    \E i \in 1..(Len(text) - Len(sub) + 1) :
        SubSeq(text, i, i + Len(sub) - 1) = sub

IsErrorResponse(resp, code) ==
    /\ resp.kind = "error"
    /\ resp.error.class = "McpError"
    /\ resp.error.code = code

\* the fields of a tool for which the catalog documents a default
DefaultedFields(name) ==
    {f \in DeclaredFields(name) :
        "default" \in DOMAIN Descriptor(name).inputSchema.properties[f]}
DocumentedDefault(name, f) == Descriptor(name).inputSchema.properties[f].default

\* the fields a request supplies
Supplied(r) ==
    IF request[r].arguments.t = "undefined" THEN {}
    ELSE DOMAIN request[r].arguments.m

\* the GitHub operation that corresponds to a tool
CorrespondingOperation(name) ==
    CASE name = "list_repositories" -> "repos.listForAuthenticatedUser"
      [] name = "get_repository" -> "repos.get"
      [] name = "list_issues" -> "issues.listForRepo"
      [] name = "create_issue" -> "issues.create"
      [] name = "list_pull_requests" -> "pulls.list"
      [] name = "get_file_content" -> "repos.getContent"
      [] OTHER -> "none"

(***************************************************************************)
(* C1.  A tool name is dispatched to a method exactly when it is one of    *)
(* the names of the catalog, compared case-sensitively; any other name is  *)
(* answered with a method-not-found error and no GitHub call is made for   *)
(* it at any point.                                                        *)
(***************************************************************************)
C1_DispatchIffInCatalog ==
    \A r \in Slots :
        /\ Handled(r) => ((handler[r] # "default") <=> Known(r))
        /\ (phase[r] # "free" /\ ~Known(r)) => calls[r] = <<>>
        /\ (Handled(r) /\ ~Known(r)) =>
              /\ phase[r] = "done"
              /\ Len(response[r]) = 1
              /\ IsErrorResponse(response[r][1], "MethodNotFound")

C1_Witness ==
    /\ phase[1] = "done"
    /\ request[1].name = "List_Issues"
    /\ request[1].arguments.t = "object"
    /\ request[1].arguments.m # <<>>
    /\ IsErrorResponse(response[1][1], "MethodNotFound")

(***************************************************************************)
(* C2.  When handling a call of a known tool fails, before the GitHub call *)
(* or in it, the request ends with exactly an internal-error protocol      *)
(* error whose message contains the message of the original failure; the   *)
(* failure never becomes a result.                                         *)
(***************************************************************************)
\* the failure raised while handling slot r, None when there is none
OriginalFailure(r) ==
    IF settled[r] # None
    THEN IF settled[r].k = "rejected" THEN Rejected(settled[r].error) ELSE None
    ELSE LET c == Invoke(request[r].name, request[r].arguments)
         IN IF c.k = "throw" THEN Rejected(c.error) ELSE None

\* C2: a failure while handling a known tool ends as an internal error
\* that carries the message of the failure
C2_FailureBecomesInternalError ==
    \A r \in Slots :
        (phase[r] = "done" /\ Known(r) /\ OriginalFailure(r) # None) =>
            /\ Len(response[r]) = 1
            /\ IsErrorResponse(response[r][1], "InternalError")
            /\ Contains(response[r][1].error.message,
                        OriginalFailure(r).error.message)
            /\ Contains(response[r][1].error.message, <<request[r].name>>)

C2_Witness ==
    /\ phase[1] = "done"
    /\ request[1].name = "get_file_content"
    /\ settled[1] = Rejected(JsError("RequestError", "HttpError", <<"Not Found">>))
    /\ IsErrorResponse(response[1][1], "InternalError")
    /\ Contains(response[1][1].error.message, <<"Not Found">>)

(***************************************************************************)
(* C3.  Whenever a request for a tool omits a field with a documented      *)
(* default, also by carrying no arguments object at all, one GitHub call   *)
(* is made and it carries the catalog's default for that field.            *)
(***************************************************************************)
C3_DefaultsApplied ==
    \A r \in Slots :
        (Handled(r) /\ Known(r)) =>
            \A f \in DefaultedFields(request[r].name) \ Supplied(r) :
                /\ Len(calls[r]) = 1
                /\ calls[r][1].params[f] = DocumentedDefault(request[r].name, f)

(***************************************************************************)
(* C5.  Handling a request for a known tool issues exactly one GitHub      *)
(* call, the operation that corresponds to the tool, and never more than   *)
(* one, also when the call fails.                                          *)
(***************************************************************************)
C5_ExactlyOneCall ==
    \A r \in Slots :
        /\ Len(calls[r]) <= 1
        /\ (Handled(r) /\ Known(r)) =>
              /\ Len(calls[r]) = 1
              /\ calls[r][1].op = CorrespondingOperation(request[r].name)

(***************************************************************************)
(* C8.  After a failed start-up (the constructor throws, or run() rejects) *)
(* the process never ends with exit status zero.                           *)
(***************************************************************************)
StartupFailed ==
    \/ proc = "failed"
    \/ proc = "exited" /\ RunningLine \notin Range(stderr)

\* C8: a process whose start-up failed does not end with status zero
C8_StartupFailureExitsNonZero ==
    (StartupFailed /\ proc = "exited") => exitCode # 0

(***************************************************************************)
(* C10.  The GitHub call carries exactly the declared fields of the tool:  *)
(* each one the caller supplies with the supplied value, and each one the  *)
(* caller omits that has no documented default as undefined.               *)
(***************************************************************************)
C10_FieldsForwardedVerbatim ==
    \A r \in Slots :
        calls[r] # <<>> =>
            LET name == request[r].name
                sent == calls[r][1].params
            IN /\ DOMAIN sent = DeclaredFields(name)
               /\ \A f \in DeclaredFields(name) :
                     /\ f \in Supplied(r) => sent[f] = request[r].arguments.m[f]
                     /\ (f \notin Supplied(r) /\ f \notin DefaultedFields(name))
                           => sent[f] = Undefined

C10_Witness ==
    /\ phase[1] = "awaiting"
    /\ request[1] = Params("create_issue",
                           Arguments(("title" :> JStr("Bug")) @@ OwnerRepo))
    /\ calls[1][1].op = "issues.create"
    /\ calls[1][1].params["title"] = JStr("Bug")
    /\ calls[1][1].params["body"] = Undefined
    /\ calls[1][1].params["labels"] = Undefined
    /\ calls[1][1].params["assignees"] = Undefined

(***************************************************************************)
(* Reading a JSON text back, and the layout of a 2-space pretty-print.     *)
(***************************************************************************)
IsSpace(tok) == tok.k \in {"newline", "space"}
Malformed == [t |-> "malformed"]
Parsed(v, next) == [v |-> v, next |-> next]

\* the first position from i on that holds no white space
RECURSIVE SkipSpace(_, _)
SkipSpace(text, i) ==
    IF i <= Len(text) /\ IsSpace(text[i]) THEN SkipSpace(text, i + 1) ELSE i

RECURSIVE ParseValue(_, _)
RECURSIVE ParseMembers(_, _, _)
RECURSIVE ParseElements(_, _, _)

ParseMembers(text, i, acc) ==
    LET j == SkipSpace(text, i)
    IN IF j > Len(text) THEN Parsed(Malformed, j)
       ELSE IF text[j] = Punct("}") THEN Parsed(JObj(acc), j + 1)
       ELSE IF text[j] = Punct(",") /\ acc # <<>> THEN
            LET k == SkipSpace(text, j + 1)
            IN IF k > Len(text) \/ text[k].k # "string"
               THEN Parsed(Malformed, k)
               ELSE ParseMembers(text, k, acc)
       ELSE IF text[j].k = "string" THEN
            LET c == SkipSpace(text, j + 1)
            IN IF c > Len(text) \/ text[c] # Punct(":")
               THEN Parsed(Malformed, c)
               ELSE LET m == ParseValue(text, c + 1)
                    IN IF m.v = Malformed THEN m
                       ELSE ParseMembers(text, m.next,
                                         Append(acc, <<text[j].s, m.v>>))
       ELSE Parsed(Malformed, j)

ParseElements(text, i, acc) ==
    LET j == SkipSpace(text, i)
    IN IF j > Len(text) THEN Parsed(Malformed, j)
       ELSE IF text[j] = Punct("]") THEN Parsed(JArr(acc), j + 1)
       ELSE LET start == IF acc = <<>> THEN j
                         ELSE IF text[j] = Punct(",") THEN j + 1 ELSE 0
            IN IF start = 0 THEN Parsed(Malformed, j)
               ELSE LET m == ParseValue(text, start)
                    IN IF m.v = Malformed THEN m
                       ELSE ParseElements(text, m.next, Append(acc, m.v))

ParseValue(text, i) ==
    LET j == SkipSpace(text, i)
    IN IF j > Len(text) THEN Parsed(Malformed, j)
       ELSE CASE text[j].k = "null" -> Parsed(JNull, j + 1)
              [] text[j].k = "string" -> Parsed(JStr(text[j].s), j + 1)
              [] text[j].k = "number" -> Parsed(JNum(text[j].n), j + 1)
              [] text[j] = Punct("{") -> ParseMembers(text, j + 1, <<>>)
              [] text[j] = Punct("[") -> ParseElements(text, j + 1, <<>>)
              [] OTHER -> Parsed(Malformed, j)

\* the value a JSON text denotes, Malformed when it denotes none
JSONParse(text) ==
    LET m == ParseValue(text, 1)
    IN IF m.v # Malformed /\ SkipSpace(text, m.next) = Len(text) + 1
       THEN m.v ELSE Malformed

IsOpener(tok) == tok \in {Punct("{"), Punct("[")}
IsCloser(tok) == tok \in {Punct("}"), Punct("]")}

\* the nesting depth of position i: openers less closers before it
NestingDepth(text, i) ==
    Cardinality({j \in 1..(i - 1) : IsOpener(text[j])})
      - Cardinality({j \in 1..(i - 1) : IsCloser(text[j])})

\* every line starts with two spaces per nesting level, a member's value
\* follows its colon after one space, every member, element and closing
\* bracket of a non-empty container starts a line, and there is no other
\* white space
PrettyPrintedBy2(text) ==
    \A i \in DOMAIN text :
        /\ text[i].k = "newline" =>
              LET j == SkipSpace(text, i + 1)
                  depth == NestingDepth(text, j)
                             - (IF IsCloser(text[j]) THEN 1 ELSE 0)
              IN /\ j <= Len(text)
                 /\ j = i + 1 + depth
                 /\ \A s \in (i + 1)..(j - 1) : text[s] = Spaces(2)
        /\ text[i].k = "space" =>
              \/ text[i] = Spaces(1) /\ i > 1 /\ text[i - 1] = Punct(":")
              \/ text[i] = Spaces(2) /\ i > 1 /\ IsSpace(text[i - 1])
        /\ text[i] = Punct(":") => i < Len(text) /\ text[i + 1] = Spaces(1)
        /\ text[i] = Punct(",") => i < Len(text) /\ text[i + 1] = LineBreak
        /\ (IsOpener(text[i]) /\ ~IsCloser(text[i + 1])) =>
              text[i + 1] = LineBreak
        /\ (IsCloser(text[i]) /\ ~IsOpener(text[i - 1])) =>
              (text[i - 1] = LineBreak \/ text[i - 1] = Spaces(2))

(***************************************************************************)
(* C4.  When the GitHub call of a known tool resolves, the request ends    *)
(* with a result whose content is exactly one block of type text, and the  *)
(* text is the 2-space pretty-printed JSON of the response body: read      *)
(* back, it is that body, member for member and in the same order.         *)
(***************************************************************************)
C4_SingleTextBlockOfRawBody ==
    \A r \in Slots :
        (phase[r] = "done" /\ Known(r) /\ settled[r] # None
           /\ settled[r].k = "resolved") =>
            /\ Len(response[r]) = 1
            /\ response[r][1].kind = "result"
            /\ DOMAIN response[r][1].result = {"content"}
            /\ Len(response[r][1].result.content) = 1
            /\ LET block == response[r][1].result.content[1]
               IN /\ DOMAIN block = {"type", "text"}
                  /\ block.type = "text"
                  /\ JSONParse(block.text) = settled[r].data
                  /\ PrettyPrintedBy2(block.text)

C4_Witness ==
    /\ phase[1] = "done"
    /\ request[1].name = "get_repository"
    /\ settled[1] = Resolved(HelloWorld)
    /\ response[1][1].result.content[1].text =
          <<Punct("{"), LineBreak,
            Spaces(2), Quote("id"), Punct(":"), Spaces(1), NumberText(1),
            Punct(","), LineBreak,
            Spaces(2), Quote("name"), Punct(":"), Spaces(1),
            Quote("Hello-World"), LineBreak,
            Punct("}")>>

(***************************************************************************)
(* C6.  Whatever requests came before, a list-tools request is answered    *)
(* with the same catalog: six descriptors with pairwise distinct names,    *)
(* every required field among the descriptor's properties, and the         *)
(* required sets, enum values, defaults and per_page maximum of the        *)
(* specification's table.                                                  *)
(***************************************************************************)
NoDefaults == [f \in {} |-> Undefined]
NoEnums == [f \in {} |-> {}]
StateEnum == [state |-> {"open", "closed", "all"}]
TableRow(required, optional, defaults, enums) ==
    [required |-> required, optional |-> optional, defaults |-> defaults,
     enums |-> enums]

\* the table of the specification, section 4.1
SpecTable ==
    [list_repositories |->
        TableRow({}, {},
                 [type |-> JStr("owner"), sort |-> JStr("updated"),
                  per_page |-> JNum(30)],
                 [type |-> {"all", "owner", "member"},
                  sort |-> {"created", "updated", "pushed", "full_name"}]),
     get_repository |-> TableRow({"owner", "repo"}, {}, NoDefaults, NoEnums),
     list_issues |->
        TableRow({"owner", "repo"}, {"labels"},
                 [state |-> JStr("open"), per_page |-> JNum(30)], StateEnum),
     create_issue |->
        TableRow({"owner", "repo", "title"}, {"body", "labels", "assignees"},
                 NoDefaults, NoEnums),
     list_pull_requests |->
        TableRow({"owner", "repo"}, {},
                 [state |-> JStr("open"), per_page |-> JNum(30)], StateEnum),
     get_file_content |->
        TableRow({"owner", "repo", "path"}, {}, [ref |-> JStr("main")],
                 NoEnums)]

RequiredOf(d) ==
    IF "required" \in DOMAIN d.inputSchema
    THEN Range(d.inputSchema.required) ELSE {}

DescriptorMatchesRow(d, row) ==
    LET props == d.inputSchema.properties
    IN /\ RequiredOf(d) = row.required
       /\ RequiredOf(d) \subseteq DOMAIN props
       /\ DOMAIN props = row.required \cup row.optional \cup DOMAIN row.defaults
       /\ \A f \in DOMAIN props :
             /\ ("default" \in DOMAIN props[f]) <=> (f \in DOMAIN row.defaults)
             /\ f \in DOMAIN row.defaults => props[f].default = row.defaults[f]
             /\ ("enum" \in DOMAIN props[f]) <=> (f \in DOMAIN row.enums)
             /\ f \in DOMAIN row.enums => Range(props[f].enum) = row.enums[f]
             /\ ("maximum" \in DOMAIN props[f]) <=> (f = "per_page")
             /\ f = "per_page" => props[f].maximum = 100

CatalogMatchesTable(result) ==
    /\ DOMAIN result = {"tools"}
    /\ Len(result.tools) = 6
    /\ \A i, j \in DOMAIN result.tools :
          result.tools[i].name = result.tools[j].name => i = j
    /\ {result.tools[i].name : i \in DOMAIN result.tools} = DOMAIN SpecTable
    /\ \A i \in DOMAIN result.tools :
          DescriptorMatchesRow(result.tools[i], SpecTable[result.tools[i].name])

\* C6: every list-tools answer is the catalog of the table
C6_CatalogIsTheTable ==
    toolsResponse # None => CatalogMatchesTable(toolsResponse)

C6_Witness ==
    /\ toolsResponse # None
    /\ \E r \in Slots :
          phase[r] = "done" /\ IsErrorResponse(response[r][1], "InternalError")
    /\ \E r \in Slots :
          phase[r] = "done" /\ IsErrorResponse(response[r][1], "MethodNotFound")

(***************************************************************************)
(* C7.  A failing request does not stop the server: the serving state is   *)
(* left only by the transport closing, which touches no request; a request *)
(* never has more than one response, and every request received is         *)
(* eventually answered with exactly one, a result or an error.             *)
(***************************************************************************)
Pending(r) == phase[r] \in {"received", "awaiting"}

\* a step out of the serving state is the transport closing, nothing else
ServingEndsOnlyByClose ==
    (proc = "serving" /\ proc' # "serving") =>
        (proc' = "closed" /\ UNCHANGED slotVars)

\* no step ends the process while a request is unanswered after it
PendingKeepsProcess ==
    (proc \in {"serving", "closed"} /\ (\E r \in Slots : Pending(r)')) =>
        proc' \in {"serving", "closed"}

\* C7: failures leave the server serving, and every request gets exactly
\* one response
C7_FailuresDoNotStopServing ==
    /\ [](\A r \in Slots :
             /\ Len(response[r]) <= 1
             /\ phase[r] = "done" <=> Len(response[r]) = 1)
    /\ [][ServingEndsOnlyByClose]_vars
    /\ [][PendingKeepsProcess]_vars
    /\ \A r \in Slots : Pending(r) ~> (phase[r] = "done")

C7_Witness ==
    /\ proc = "serving"
    /\ phase[1] = "done" /\ IsErrorResponse(response[1][1], "InternalError")
    /\ settled[1] # None
    /\ phase[2] = "done" /\ IsErrorResponse(response[2][1], "MethodNotFound")

(***************************************************************************)
(* C9.  With several requests in flight and their GitHub calls settling in *)
(* any order, the call and the response of a request are those its own     *)
(* name, its own arguments and the outcome of its own call determine, and  *)
(* handling requests changes neither the client handle with its credential *)
(* nor the catalog.                                                        *)
(***************************************************************************)
OwnCompletion(r) == Invoke(request[r].name, request[r].arguments)

OwnResponse(r) ==
    IF OwnCompletion(r).k = "throw"
    THEN ErrorResponse(Catch(request[r].name, OwnCompletion(r).error))
    ELSE IF settled[r] = None THEN None
    ELSE Settle(request[r].name, settled[r])

\* a step of the running server keeps the client handle and the catalog
HandlesUntouched ==
    proc \in {"serving", "closed"} =>
        (octokit' = octokit /\ toolsResponse' \in {toolsResponse, ListToolsResult})

\* C9: call and response of a request depend on that request alone, and
\* the handles stay as constructed
C9_RequestsAreIndependent ==
    /\ [](\A r \in Slots :
             /\ phase[r] = "done" => response[r] = <<OwnResponse(r)>>
             /\ calls[r] # <<>> =>
                   /\ OwnCompletion(r).k = "await"
                   /\ calls[r] = <<[op |-> OwnCompletion(r).op,
                                    params |-> OwnCompletion(r).params,
                                    auth |-> octokit.auth]>>)
    /\ [][HandlesUntouched]_vars

C9_Witness ==
    /\ phase[1] = "done" /\ phase[2] = "done"
    /\ request[1] = request[2]
    /\ response[1][1].kind = "error"
    /\ response[2][1].kind = "result"

=============================================================================
